---- MODULE Spec2Model ----
(***************************************************************************)
(* Model of lytics/gobyairship.                                            *)
(*                                                                         *)
(*   events.Response  (events.go: newResponse, Events, Close, Err)         *)
(*       one producer goroutine decoding NDJSON from the body and handing  *)
(*       events to consumers over a buffered channel; Close() and Err()    *)
(*       callers; all of them interleaved.        specification  Spec      *)
(*                                                                         *)
(*   gobyairship.Client.Post  (client.go)                                  *)
(*       the 307 + Set-Cookie redirect loop.      specification  SpecPost  *)
(*       with round trips that return.        specification  FairSpecPost  *)
(*       against a scripted server.             specification  SpecReplay  *)
(*                                                                         *)
(*   events.Fetch, Request.Validate, Subset.Validate  (request.go)         *)
(*       Fetch on any Client.                     specification  SpecFetch *)
(*       Validate on any value.                specification  SpecValidate *)
(*                                                                         *)
(*   The Response with a consumer that lags.    specification  SpecBacklog *)
(*                                                                         *)
(*   Event.PushBody, Open, Send, Close, TagChange, Location  (events.go)   *)
(*       on any event.                         specification  SpecAccessor *)
(*       on the events of a stream.               specification  SpecTyped *)
(***************************************************************************)
EXTENDS Integers, Sequences, FiniteSets, TLC

(***************************************************************************)
(* Bounds of the model.                                                    *)
(***************************************************************************)
MaxBody == 3            \* longest body (in JSON objects) the server sends
MaxPostCalls == 2       \* Post calls made on the client
MaxCount == 3           \* partition counts and selections are -1..MaxCount
MaxBacklog == 12        \* longest body sent to a consumer that lags behind
MaxTypedBody == 2       \* longest body of events of various types
MaxScript == 2          \* longest script of answers of a scripted server

(***************************************************************************)
(* Program constants.                                                      *)
(***************************************************************************)
OutCap == 10                        \* make(chan *Event, 10)
tries == 10                         \* const tries = 10
StatusTemporaryRedirect == 307      \* http.StatusTemporaryRedirect

\* The Close() calls made on the Response: by different goroutines, or one
\* after the other by a goroutine whose earlier call has ended.
Closers == {"c1", "c2"}
\* The goroutines that receive from Events(), and those of them that also
\* call Err().
Consumers == {"k1", "k2"}
ErrCallers == {"k1"}
\* The offsets the server puts on events.
Offsets == {0, 1}

VARIABLES
    \* ---- events.Response and its goroutines ----
    stream,       \* what the server sends: the JSON objects of the body
    pos,          \* objects the decoder has read from the body so far
    decoded,      \* objects the decoder has consumed from its buffer
    bodyOpen,     \* r.body has not been closed
    bodyCloses,   \* number of r.body.Close() calls made
    closedCh,     \* r.closed: "nil", "open" or "closed"
    signals,      \* number of times r.closed was closed
    out,          \* r.out: the events buffered in the channel
    outCh,        \* r.out: "open" or "closed"
    outCloses,    \* number of times r.out was closed
    outCloser,    \* who closed r.out ("none" while open)
    published,    \* the events ever placed on r.out, in order
    mu,           \* r.mu: "free" or the goroutine holding it
    err,          \* r.err
    ppc,          \* producer goroutine: position in its code
    perr,         \* producer goroutine: the local err of Decode
    ev,           \* producer goroutine: the local ev, NoEvent when none
    cpc,          \* Close() calls: position in Close, or how it ended
    crashed,      \* an unrecovered panic has ended the program
    kpc,          \* consumers: position
    received,     \* consumers: events received, in order of receipt
    sawClosed,    \* consumers: a receive reported the channel closed
    errSeen,      \* consumers: result of the last Err() call
    acc,          \* result of the last typed accessor called on an event
    \* ---- Client.Post ----
    client,       \* the Client: BaseURL, HTTPClient, key and secret
    script,       \* the server under test: its answers, <<>> for any server
    sent,         \* the requests of this call sent to the scripted server
    sentBefore,   \* the call before this one: its arguments and requests
    hpc,          \* Post: position in its code
    calls,        \* Post calls started on the client
    path,         \* Post: the url argument of the call
    body,         \* Post: the body argument of the call
    buf,          \* Post: the marshaled body
    fullURL,      \* Post: the full URL of the call
    try,          \* Post: the loop counter
    req,          \* Post: the request last built
    resp,         \* Post: the response last received
    prev,         \* the response the request last built follows
    prevURL,      \* the URL of the request that prev answered
    lastCookie,   \* the last Set-Cookie value received in this call
    nreq,         \* requests sent by this Post call
    n307,         \* 307 responses received by this Post call
    bodies,       \* the bodies of the responses received in this call
    ret,          \* what Post returned: response and error
    \* ---- events.Fetch and the request model ----
    fpc,          \* Fetch: position in its code
    freq,         \* the Request: start, offset and subset
    verr,         \* the result of req.Validate(), "unset" before the call
    serr,         \* the result of req.Subset.Validate() called by itself
    fposts,       \* calls of c.Post made by Fetch
    fresp,        \* Fetch: what c.Post returned
    fret          \* what Fetch returned: Response and error

postVars == <<client, script, sent, sentBefore, hpc, calls, path, body, buf,
              fullURL, try, req, resp, prev, prevURL, lastCookie, nreq, n307, bodies,
              ret>>
streamVars == <<stream, pos, decoded, bodyOpen, bodyCloses, closedCh, signals,
                out, outCh, outCloses, outCloser, published, mu, err, ppc, perr,
                ev, cpc, crashed, kpc, received, sawClosed, errSeen, acc>>
fetchVars == <<fpc, freq, verr, serr, fposts, fresp, fret>>
vars == <<streamVars, postVars, fetchVars>>


(***************************************************************************)
(* Values.                                                                 *)
(***************************************************************************)
\* The producer holds no event.
NoEvent == [seq |-> 0, offset |-> 0, type |-> "", body |-> ""]
NoErr == "nil"                          \* a nil error
EOF == "io.EOF"                         \* end of input
SyntaxError == "json.SyntaxError"       \* malformed envelope
ReadAfterClose == "read on closed body" \* read on a body that was closed
\* The result of a consumer's last Err() call: the value, and whether the
\* consumer had seen the channel closed when it called. None at first.
NoErrCall == [val |-> "unset", afterClosed |-> FALSE]

\* type Type: the event types of types.go, those with a typed accessor
\* among them, and type strings the package does not know.
TypePush == "PUSH_BODY"
TypeOpen == "OPEN"
TypeSend == "SEND"
TypeClose == "CLOSE"
TypeTagChange == "TAG_CHANGE"
TypeUninstall == "UNINSTALL"
TypeFirst == "FIRST_OPEN"
TypeCustom == "CUSTOM"
TypeLocation == "LOCATION"
EventTypes == {TypePush, TypeOpen, TypeSend, TypeClose, TypeTagChange,
               TypeUninstall, TypeFirst, TypeCustom, TypeLocation}
AccessorKinds == {TypePush, TypeOpen, TypeSend, TypeClose, TypeTagChange,
                  TypeLocation}
UnknownTypes == {"RICH_READ", ""}

\* Event.Body, a json.RawMessage: a JSON object, a JSON array, or nothing
\* when the envelope has no body.
BodyKinds == {"object", "array", "absent"}

\* One JSON object of the body: a well-formed event envelope carrying an
\* offset, a type and a body, or a malformed one.
Items == [bad : BOOLEAN, offset : Offsets, type : {TypePush}, body : {"object"}]

RECURSIVE SeqsUpTo(_, _)
SeqsUpTo(S, n) ==
    IF n = 0 THEN {<<>>}
    ELSE LET shorter == SeqsUpTo(S, n - 1)
         IN  shorter \cup {Append(q, x) : q \in {t \in shorter : Len(t) = n - 1}, x \in S}

\* The bodies a server may send: any sequence of objects, an offset of a
\* malformed object being immaterial.
Streams == {q \in SeqsUpTo(Items, MaxBody) :
                \A i \in 1..Len(q) : q[i].bad => q[i].offset = 0}

\* The program runs: no panic has gone unrecovered.
Running == ~crashed

(***************************************************************************)
(* Go channel primitives.                                                  *)
(***************************************************************************)
\* close(ch): closing a nil or an already closed channel panics.
ClosePanics(ch) == ch \in {"nil", "closed"}

\* A receive from ch can proceed: a nil channel blocks forever, an open
\* one (of struct{} that nobody sends on) blocks, a closed one is ready.
RecvReady(ch) == ch = "closed"

\* Variant: the channel takes any number of elements.
SendReadyUnbounded(ch) == TRUE

\* A send on the buffered channel can proceed.
SendReady(ch) == Len(ch) < OutCap

\* Variant: the element jumps the queue.
EnqueueFront(ch, e) == <<e>> \o ch

\* ch <- e on the buffered channel: e joins the buffer behind the others.
Enqueue(ch, e) == Append(ch, e)

\* Variant: every receiver is handed a copy, the element stays buffered.
DequeueCopy(ch) == [val |-> Head(ch), rest |-> ch]

\* <-ch on the buffered channel: the oldest element is handed to the one
\* receiver and leaves the buffer.
Dequeue(ch) == [val |-> Head(ch), rest |-> Tail(ch)]

(***************************************************************************)
(* The typed accessors of Event.                                           *)
(***************************************************************************)
WrongType == "wrong type for event"
ErrUnexpectedEnd == "unexpected end of JSON input"
ErrUnmarshalType == "json: cannot unmarshal array into Go value"

\* json.Unmarshal(e.Body, &v) into one of the payload structs: the error.
Unmarshal(b) ==
    CASE b = "object" -> NoErr
      [] b = "absent" -> ErrUnexpectedEnd
      [] OTHER        -> ErrUnmarshalType

\* The result of an accessor call: the accessor, the event it was called
\* on, the payload and error returned, and whether the body was handed to
\* json.Unmarshal. None at first.
NoAcc == [kind |-> "", seq |-> 0, type |-> "", payload |-> "nil",
          err |-> "unset", unmarshalled |-> FALSE]

\* Variant: the body is decoded before the type is looked at.
AccessorDecodeFirst(K, e) ==
    LET u == Unmarshal(e.body)
    IN  IF e.type # K \/ u # NoErr
        THEN [kind |-> K, seq |-> e.seq, type |-> e.type, payload |-> "nil",
              err |-> IF e.type # K THEN WrongType ELSE u, unmarshalled |-> TRUE]
        ELSE [kind |-> K, seq |-> e.seq, type |-> e.type, payload |-> K,
              err |-> NoErr, unmarshalled |-> TRUE]

\* func (e *Event) PushBody / Open / Send / Close / TagChange / Location,
\* K being the type the accessor is for:
\*   if e.Type != K { return nil, WrongType }
\*   if err := json.Unmarshal(e.Body, &p); err != nil { return nil, err }
\*   return &p, nil
Accessor(K, e) ==
    IF e.type # K
    THEN [kind |-> K, seq |-> e.seq, type |-> e.type, payload |-> "nil",
          err |-> WrongType, unmarshalled |-> FALSE]
    ELSE LET u == Unmarshal(e.body)
         IN  IF u # NoErr
             THEN [kind |-> K, seq |-> e.seq, type |-> e.type,
                   payload |-> "nil", err |-> u, unmarshalled |-> TRUE]
             ELSE [kind |-> K, seq |-> e.seq, type |-> e.type,
                   payload |-> K, err |-> NoErr, unmarshalled |-> TRUE]

(***************************************************************************)
(* newResponse: the Response as constructed for a 200 response.            *)
(***************************************************************************)
\* r := &Response{out: ..., body: ..., mu: ...}: the fields of the literal;
\* closed is not among them and keeps its zero value, a nil channel.
NewClosed == "nil"

InitStream ==
    /\ stream \in Streams
    /\ pos = 0
    /\ decoded = 0
    /\ bodyOpen = TRUE
    /\ bodyCloses = 0
    /\ closedCh = NewClosed
    /\ signals = 0
    /\ out = <<>>
    /\ outCh = "open"
    /\ outCloses = 0
    /\ outCloser = "none"
    /\ published = <<>>
    /\ mu = "free"
    /\ err = NoErr
    /\ ppc = "decode"
    /\ perr = NoErr
    /\ ev = NoEvent
    /\ cpc = [c \in Closers |-> "idle"]
    /\ crashed = FALSE
    /\ kpc = [k \in Consumers |-> "idle"]
    /\ received = [k \in Consumers |-> <<>>]
    /\ sawClosed = [k \in Consumers |-> FALSE]
    /\ errSeen = [k \in Consumers |-> NoErrCall]
    /\ acc = NoAcc

(***************************************************************************)
(* The producer goroutine of newResponse.                                  *)
(***************************************************************************)
producerVars == <<ppc, perr, ev>>
closerVars == <<cpc, crashed>>
consumerVars == <<kpc, received, sawClosed, errSeen, acc>>
bodyVars == <<stream, pos, decoded, bodyOpen, bodyCloses>>
signalVars == <<closedCh, signals>>
outVars == <<out, outCh, outCloses, outCloser, published>>

\* dec.Decode needs more input: the decoder reads from the body whatever
\* has arrived, one object or more, into its buffer.
DecodeRead ==
    /\ Running
    /\ ppc = "decode"
    /\ decoded = pos
    /\ bodyOpen
    /\ pos < Len(stream)
    /\ \E n \in (pos + 1)..Len(stream) : pos' = n
    /\ UNCHANGED <<stream, decoded, bodyOpen, bodyCloses, signalVars, outVars,
                   mu, err, producerVars, closerVars, consumerVars, postVars, fetchVars>>

\* Variant: a malformed object is taken for an event.
DecodeErrLenient(item) == NoErr

\* Variant: an object of a type outside the enumeration is a decode error.
DecodeErrStrict(item) ==
    IF item.bad \/ item.type \notin EventTypes THEN SyntaxError ELSE NoErr

\* The result of dec.Decode(&ev) on the next buffered object.
DecodeErr(item) == IF item.bad THEN SyntaxError ELSE NoErr

\* dec.Decode(&ev) on a buffered object: a well-formed envelope becomes the
\* event in hand, a malformed one the decode error.
DecodeNext ==
    /\ Running
    /\ ppc = "decode"
    /\ decoded < pos
    /\ LET item == stream[decoded + 1]
           e    == DecodeErr(item)
       IN  /\ decoded' = decoded + 1
           /\ IF e = NoErr
              THEN /\ ev' = [seq |-> decoded + 1, offset |-> item.offset,
                               type |-> item.type, body |-> item.body]
                   /\ ppc' = "select"
                   /\ perr' = NoErr
              ELSE /\ ev' = NoEvent
                   /\ ppc' = "lock"
                   /\ perr' = e
    /\ UNCHANGED <<stream, pos, bodyOpen, bodyCloses, signalVars, outVars,
                   mu, err, closerVars, consumerVars, postVars, fetchVars>>

\* Variant: the end of input is reported as any other read failure.
ReadErrAlike(open) == ReadAfterClose

\* The error of a body read that delivers no data.
ReadErr(open) == IF open THEN EOF ELSE ReadAfterClose

\* dec.Decode needs more input and the read fails: the body was closed,
\* or the server has ended the stream.
DecodeReadFail ==
    /\ Running
    /\ ppc = "decode"
    /\ decoded = pos
    /\ ~bodyOpen \/ pos = Len(stream)
    /\ perr' = ReadErr(bodyOpen)
    /\ ppc' = "lock"
    /\ UNCHANGED <<bodyVars, signalVars, outVars, mu, err, ev, closerVars,
                   consumerVars, postVars, fetchVars>>

\* Variant: the producer goes on without taking the mutex.
ProducerNoLock ==
    /\ Running
    /\ ppc = "lock"
    /\ ppc' = "seterr"
    /\ UNCHANGED <<bodyVars, signalVars, outVars, mu, err, perr, ev, closerVars,
                   consumerVars, postVars, fetchVars>>

\* if err != nil { r.mu.Lock(); defer r.mu.Unlock() ...
ProducerLock ==
    /\ Running
    /\ ppc = "lock"
    /\ mu = "free"
    /\ mu' = "producer"
    /\ ppc' = "seterr"
    /\ UNCHANGED <<bodyVars, signalVars, outVars, err, perr, ev, closerVars,
                   consumerVars, postVars, fetchVars>>

\* r.err = err
ProducerSetErr ==
    /\ Running
    /\ ppc = "seterr"
    /\ err' = perr
    /\ ppc' = "closeout"
    /\ UNCHANGED <<bodyVars, signalVars, outVars, mu, perr, ev, closerVars,
                   consumerVars, postVars, fetchVars>>

\* close(r.out)
ProducerCloseOut ==
    /\ Running
    /\ ppc = "closeout"
    /\ IF ClosePanics(outCh)
       THEN /\ ppc' = "panicked"
            /\ mu' = "free"
            /\ crashed' = TRUE
            /\ UNCHANGED outVars
       ELSE /\ outCh' = "closed"
            /\ outCloses' = outCloses + 1
            /\ outCloser' = "producer"
            /\ ppc' = "return"
            /\ UNCHANGED <<out, published, mu, crashed>>
    /\ UNCHANGED <<bodyVars, signalVars, err, perr, ev, cpc, consumerVars,
                   postVars, fetchVars>>

\* Variant: after closing the channel the producer unlocks and goes on
\* decoding.
ProducerReturnLoop ==
    /\ Running
    /\ ppc = "return"
    /\ mu' = "free"
    /\ ppc' = "decode"
    /\ UNCHANGED <<bodyVars, signalVars, outVars, err, perr, ev, closerVars,
                   consumerVars, postVars, fetchVars>>

\* return, running the deferred r.mu.Unlock()
ProducerReturn ==
    /\ Running
    /\ ppc = "return"
    /\ mu' = "free"
    /\ ppc' = "done"
    /\ UNCHANGED <<bodyVars, signalVars, outVars, err, perr, ev, closerVars,
                   consumerVars, postVars, fetchVars>>

\* The cases of the producer's select that can proceed.
SelectReady ==
    (IF SendReady(out) THEN {"send"} ELSE {}) \cup
    (IF RecvReady(closedCh) THEN {"closed"} ELSE {})

\* select { case r.out <- &ev: case <-r.closed: return }
\* Go picks any one of the cases that can proceed. On the send the event is
\* placed on r.out and the loop goes on; on the close signal the goroutine
\* returns as it is: the event in hand is dropped and r.out is left open.
ProducerSelect ==
    /\ Running
    /\ ppc = "select"
    /\ \E case \in SelectReady :
          IF case = "send"
          THEN /\ out' = Enqueue(out, ev)
               /\ published' = Append(published, ev)
               /\ ppc' = "decode"
          ELSE /\ ppc' = "done"
               /\ UNCHANGED <<out, published>>
    /\ ev' = NoEvent
    /\ UNCHANGED <<bodyVars, signalVars, outCh, outCloses, outCloser, mu, err,
                   perr, closerVars, consumerVars, postVars, fetchVars>>

Producer ==
    \/ DecodeRead
    \/ DecodeNext
    \/ DecodeReadFail
    \/ ProducerLock
    \/ ProducerSetErr
    \/ ProducerCloseOut
    \/ ProducerReturn
    \/ ProducerSelect

(***************************************************************************)
(* Response.Close.                                                         *)
(***************************************************************************)
\* Close() is called.
CloseCall(c) ==
    /\ Running
    /\ cpc[c] = "idle"
    /\ cpc' = [cpc EXCEPT ![c] = "lock"]
    /\ UNCHANGED <<bodyVars, signalVars, outVars, mu, err, producerVars,
                   crashed, consumerVars, postVars, fetchVars>>

\* r.mu.Lock(); defer r.mu.Unlock()
\* select { case <-r.closed: return; default: ... }
\* With the mutex held, the default branch is taken unless the receive can
\* proceed; r.closed is written under the mutex only.
CloseLock(c) ==
    /\ Running
    /\ cpc[c] = "lock"
    /\ mu = "free"
    /\ IF RecvReady(closedCh)
       THEN /\ cpc' = [cpc EXCEPT ![c] = "returned"]
            /\ UNCHANGED mu
       ELSE /\ cpc' = [cpc EXCEPT ![c] = "bodyclose"]
            /\ mu' = c
    /\ UNCHANGED <<bodyVars, signalVars, outVars, err, producerVars, crashed,
                   consumerVars, postVars, fetchVars>>

\* r.body.Close()
CloseBody(c) ==
    /\ Running
    /\ cpc[c] = "bodyclose"
    /\ bodyOpen' = FALSE
    /\ bodyCloses' = bodyCloses + 1
    /\ cpc' = [cpc EXCEPT ![c] = "signal"]
    /\ UNCHANGED <<stream, pos, decoded, signalVars, outVars, mu, err,
                   producerVars, crashed, consumerVars, postVars, fetchVars>>

\* close(r.closed), then the return with the deferred r.mu.Unlock(). When
\* close panics the deferred unlock still runs and the call ends in the
\* panic instead of returning: the panic reaches the caller of Close(),
\* which either recovers from it or lets it end the program.
CloseSignal(c) ==
    /\ Running
    /\ cpc[c] = "signal"
    /\ IF ClosePanics(closedCh)
       THEN /\ cpc' = [cpc EXCEPT ![c] = "panicked"]
            /\ \E recovered \in BOOLEAN : crashed' = ~recovered
            /\ UNCHANGED signalVars
       ELSE /\ closedCh' = "closed"
            /\ signals' = signals + 1
            /\ cpc' = [cpc EXCEPT ![c] = "returned"]
            /\ UNCHANGED crashed
    /\ mu' = "free"
    /\ UNCHANGED <<bodyVars, outVars, err, producerVars, consumerVars,
                   postVars, fetchVars>>

Close(c) ==
    \/ CloseCall(c)
    \/ CloseLock(c)
    \/ CloseBody(c)
    \/ CloseSignal(c)

(***************************************************************************)
(* Consumers: receives from Events() and calls of Err().                   *)
(***************************************************************************)
\* Events() returns r.out itself: every consumer receives from the one
\* channel. A receive takes the oldest buffered event off the channel.
Receive(k) ==
    /\ Running
    /\ kpc[k] = "idle"
    /\ Len(out) > 0
    /\ received' = [received EXCEPT ![k] = Append(@, Dequeue(out).val)]
    /\ out' = Dequeue(out).rest
    /\ UNCHANGED <<bodyVars, signalVars, outCh, outCloses, outCloser, published,
                   mu, err, producerVars, closerVars, kpc, sawClosed, errSeen,
                   acc, postVars, fetchVars>>

\* A receive from the closed and drained channel reports it closed.
ReceiveClosed(k) ==
    /\ Running
    /\ kpc[k] = "idle"
    /\ Len(out) = 0
    /\ outCh = "closed"
    /\ ~sawClosed[k]
    /\ sawClosed' = [sawClosed EXCEPT ![k] = TRUE]
    /\ UNCHANGED <<bodyVars, signalVars, outVars, mu, err, producerVars,
                   closerVars, kpc, received, errSeen, acc, postVars, fetchVars>>

\* Err(): r.mu.Lock(); defer r.mu.Unlock()
ErrLock(k) ==
    /\ Running
    /\ k \in ErrCallers
    /\ kpc[k] = "idle"
    /\ mu = "free"
    /\ mu' = k
    /\ kpc' = [kpc EXCEPT ![k] = "err"]
    /\ UNCHANGED <<bodyVars, signalVars, outVars, err, producerVars,
                   closerVars, received, sawClosed, errSeen, acc, postVars,
                   fetchVars>>

\* Err(): return r.err, running the deferred unlock
ErrReturn(k) ==
    /\ Running
    /\ kpc[k] = "err"
    /\ errSeen' = [errSeen EXCEPT ![k] =
                        [val |-> err, afterClosed |-> sawClosed[k]]]
    /\ mu' = "free"
    /\ kpc' = [kpc EXCEPT ![k] = "idle"]
    /\ UNCHANGED <<bodyVars, signalVars, outVars, err, producerVars,
                   closerVars, received, sawClosed, acc, postVars, fetchVars>>

Consumer(k) ==
    \/ Receive(k)
    \/ ReceiveClosed(k)
    \/ ErrLock(k)
    \/ ErrReturn(k)

\* Variant: an accessor that fails to decode the body makes its error the
\* terminal error of the Response.
AccessorCallAbort(k, K) ==
    /\ Running
    /\ kpc[k] = "idle"
    /\ received[k] # <<>>
    /\ acc' = Accessor(K, received[k][Len(received[k])])
    /\ err' = IF acc'.unmarshalled /\ acc'.err # NoErr THEN acc'.err ELSE err
    /\ UNCHANGED <<bodyVars, signalVars, outVars, mu, producerVars,
                   closerVars, kpc, received, sawClosed, errSeen, postVars,
                   fetchVars>>

\* A consumer calls the accessor for type K on the event it received last.
\* The accessors read e.Type and e.Body and nothing else.
AccessorCall(k, K) ==
    /\ Running
    /\ kpc[k] = "idle"
    /\ received[k] # <<>>
    /\ acc' = Accessor(K, received[k][Len(received[k])])
    /\ UNCHANGED <<bodyVars, signalVars, outVars, mu, err, producerVars,
                   closerVars, kpc, received, sawClosed, errSeen, postVars,
                   fetchVars>>

EventPushBody(k) == AccessorCall(k, TypePush)
EventOpen(k) == AccessorCall(k, TypeOpen)
EventSend(k) == AccessorCall(k, TypeSend)
EventClose(k) == AccessorCall(k, TypeClose)
EventTagChange(k) == AccessorCall(k, TypeTagChange)
EventLocation(k) == AccessorCall(k, TypeLocation)

Accessors(k) ==
    \/ EventPushBody(k)
    \/ EventOpen(k)
    \/ EventSend(k)
    \/ EventClose(k)
    \/ EventTagChange(k)
    \/ EventLocation(k)

(***************************************************************************)
(* gobyairship.Client.Post: the redirect + cookie loop.                    *)
(*                                                                         *)
(* A URL is a sequence of pieces, so that concatenation and the prefix     *)
(* test of the code are what they are on strings.                          *)
(***************************************************************************)
ErrTooManyRedirects == "too many redirects"
ErrTransport == "transport error"       \* an error of HTTPClient.Do
ErrURL == "url parse error"             \* an error of http.NewRequest
ErrMarshal == "json marshal error"      \* an error of json.Marshal

\* const DefaultBaseURL = "https://api.urbanairship.com/api"
DefaultBaseURL == <<"http", "s://api.urbanairship.com/api">>
Keys == {"key1", "key2"}                \* app keys given to NewClient

\* NewClient(key, secret)
NewClient(key, secret) ==
    [BaseURL |-> DefaultBaseURL, HTTPClient |-> "http.DefaultClient",
     key |-> key, secret |-> secret]

BaseURL == client.BaseURL               \* c.BaseURL
Paths == {<<"events">>, <<"%zz">>}      \* the url argument of Post
Bodies == {"nil", "bytes", "chan"}      \* the body argument of Post
Cookies == {"", "c1", "c2"}             \* Set-Cookie values, "" when absent
Locations == {<<>>, <<"/foo">>, <<"http", "://other", "/bar">>, <<"/%zz">>}
Statuses == {200, StatusTemporaryRedirect, 402}

NoRequest == [hop |-> -1, method |-> "", url |-> <<>>, auth |-> <<>>,
              accept |-> "", body |-> "", contentType |-> "", cookie |-> ""]
NoResponse == [status |-> 0, setCookie |-> "", location |-> <<>>]
NoReturn == [resp |-> NoResponse, err |-> "unset"]

\* What the server may answer to one request.
Responses == [status : Statuses, setCookie : Cookies, location : Locations]

\* json.Marshal(body): a []byte is encoded as a quoted base64 string, a
\* channel cannot be encoded. Post marshals only a non-nil body.
Marshal(v) ==
    CASE v = "nil"   -> [buf |-> "", err |-> NoErr]
      [] v = "bytes" -> [buf |-> "\"e30=\"", err |-> NoErr]
      [] OTHER          -> [buf |-> "", err |-> ErrMarshal]

\* url.Parse, as far as http.NewRequest depends on it: an invalid percent
\* escape makes the URL unparseable.
Parseable(url) == \A i \in 1..Len(url) : url[i] \notin {"%zz", "/%zz"}

\* strings.HasPrefix(loc, "http")
HasPrefixHttp(loc) == Len(loc) > 0 /\ loc[1] = "http"

\* req.SetBasicAuth(username, password): the Authorization header, the
\* word Basic and the base64 encoding of username:password. The encoding
\* is one to one and is kept as the pair it encodes.
BasicAuth(username, password) == <<"Basic", username, ":", password>>

\* The Accept header of every request.
AcceptHeader ==
    "application/vnd.urbanairship+x-json,application/vnd.urbanairship+x-ndjson;version=3;"

\* Variant: the request is built without the body.
newRequestNoBody(method, url, b) ==
    IF ~Parseable(url)
    THEN [req |-> NoRequest, err |-> ErrURL]
    ELSE [req |-> [hop |-> 0, method |-> method, url |-> url,
                   auth |-> BasicAuth(client.key, client.secret),
                   accept |-> AcceptHeader,
                   body |-> "", contentType |-> "", cookie |-> ""],
          err |-> NoErr]

\* Variant: only a request built before any was sent carries the
\* credentials.
newRequestFirstOnly(method, url, b) ==
    IF ~Parseable(url)
    THEN [req |-> NoRequest, err |-> ErrURL]
    ELSE [req |-> [hop |-> 0, method |-> method, url |-> url,
                   auth |-> IF nreq = 0
                            THEN BasicAuth(client.key, client.secret)
                            ELSE <<>>,
                   accept |-> AcceptHeader,
                   body |-> b,
                   contentType |-> IF b # "" THEN "application/json" ELSE "",
                   cookie |-> ""],
          err |-> NoErr]

\* Variant: the client keeps the cookie it was sent last and every new
\* request carries it.
newRequestJar(method, url, b) ==
    IF ~Parseable(url)
    THEN [req |-> NoRequest, err |-> ErrURL]
    ELSE [req |-> [hop |-> 0, method |-> method, url |-> url,
                   auth |-> BasicAuth(client.key, client.secret),
                   accept |-> AcceptHeader,
                   body |-> b,
                   contentType |-> IF b # "" THEN "application/json" ELSE "",
                   cookie |-> lastCookie],
          err |-> NoErr]

\* c.newRequest(method, url, buf): basic auth and accept headers, and the
\* body with its content type when buf is not empty.
newRequest(method, url, b) ==
    IF ~Parseable(url)
    THEN [req |-> NoRequest, err |-> ErrURL]
    ELSE [req |-> [hop |-> 0, method |-> method, url |-> url,
                   auth |-> BasicAuth(client.key, client.secret),
                   accept |-> AcceptHeader,
                   body |-> b,
                   contentType |-> IF b # "" THEN "application/json" ELSE "",
                   cookie |-> ""],
          err |-> NoErr]

\* One c.HTTPClient.Do(req): the round trip fails, or the server answers.
\* The result of the round trip, as (resp, err).
RoundTrips == {[resp |-> r, err |-> NoErr] : r \in Responses}
                 \cup {[resp |-> NoResponse, err |-> ErrTransport]}

\* The answers a scripted server is made of: redirects with and without a
\* cookie and a location, a final answer that sets a cookie, a failure.
ScriptTrips ==
    {[resp |-> [status |-> StatusTemporaryRedirect, setCookie |-> "c1",
                location |-> <<>>], err |-> NoErr],
     [resp |-> [status |-> StatusTemporaryRedirect, setCookie |-> "",
                location |-> <<"/foo">>], err |-> NoErr],
     [resp |-> [status |-> StatusTemporaryRedirect, setCookie |-> "c2",
                location |-> <<"http", "://other", "/bar">>], err |-> NoErr],
     [resp |-> [status |-> 200, setCookie |-> "c1", location |-> <<>>],
      err |-> NoErr],
     [resp |-> NoResponse, err |-> ErrTransport]}

\* The scripted servers: the i-th request of every call gets the i-th
\* answer of the script, and the last answer from there on.
Scripts == SeqsUpTo(ScriptTrips, MaxScript) \ {<<>>}

\* The server is a scripted one.
Scripted == script # <<>>

\* What the server may answer to the request about to be sent.
Served ==
    IF Scripted
    THEN {script[IF nreq < Len(script) THEN nreq + 1 ELSE Len(script)]}
    ELSE RoundTrips

\* No call of Post has been made.
NoCallBefore == [url |-> <<>>, body |-> "nil", reqs |-> <<>>]

\* No Post call is running and none was made.
InitCall ==
    /\ sent = <<>>
    /\ sentBefore = NoCallBefore
    /\ hpc = "idle"
    /\ calls = 0
    /\ path = <<>>
    /\ body = "nil"
    /\ buf = ""
    /\ fullURL = <<>>
    /\ try = 0
    /\ req = NoRequest
    /\ resp = NoResponse
    /\ prev = NoResponse
    /\ prevURL = <<>>
    /\ lastCookie = ""
    /\ nreq = 0
    /\ n307 = 0
    /\ bodies = <<>>
    /\ ret = NoReturn

\* A client as NewClient makes it, talking to any server.
InitPost ==
    /\ client = NewClient("key1", "secret")
    /\ script = <<>>
    /\ InitCall

\* Post(url, body) up to the first c.HTTPClient.Do: the full URL, the
\* marshaled body and the first request; an error of json.Marshal or of
\* newRequest is returned at once.
PostCall ==
    /\ hpc \in {"idle", "returned"}
    /\ calls < MaxPostCalls
    /\ calls' = calls + 1
    /\ \E u \in Paths, b \in Bodies :
          LET full == BaseURL \o <<"/">> \o u \o <<"/">>
              m    == Marshal(b)
              nr   == newRequest("POST", full, m.buf)
              e    == IF m.err # NoErr THEN m.err ELSE nr.err
          IN  /\ fullURL' = full
              /\ path' = u
              /\ body' = b
              /\ buf' = m.buf
              /\ IF e # NoErr
                 THEN /\ ret' = [resp |-> NoResponse, err |-> e]
                      /\ req' = NoRequest
                      /\ hpc' = "returned"
                 ELSE /\ ret' = NoReturn
                      /\ req' = nr.req
                      /\ hpc' = "do"
    /\ try' = 0
    /\ resp' = NoResponse
    /\ prev' = NoResponse
    /\ prevURL' = <<>>
    /\ lastCookie' = ""
    /\ nreq' = 0
    /\ n307' = 0
    /\ bodies' = <<>>
    /\ sent' = <<>>
    /\ sentBefore' = IF Scripted
                     THEN [url |-> fullURL, body |-> body, reqs |-> sent]
                     ELSE sentBefore
    /\ UNCHANGED <<client, script, streamVars, fetchVars>>

\* Variant: on a failed round trip the response in hand is returned along
\* with the error.
DoKeepResp(inLoop) ==
    /\ nreq' = nreq + 1
    /\ sent' = IF Scripted THEN Append(sent, req) ELSE sent
    /\ \E rt \in Served :
          IF rt.err # NoErr
          THEN /\ ret' = [resp |-> resp, err |-> rt.err]
               /\ hpc' = "returned"
               /\ UNCHANGED <<resp, n307, bodies, lastCookie, try>>
          ELSE /\ resp' = rt.resp
               /\ n307' = IF rt.resp.status = StatusTemporaryRedirect
                          THEN n307 + 1 ELSE n307
               /\ bodies' = Append(bodies, "open")
               /\ lastCookie' = IF rt.resp.setCookie # ""
                                THEN rt.resp.setCookie ELSE lastCookie
               /\ try' = IF inLoop THEN try + 1 ELSE try
               /\ hpc' = "loop"
               /\ UNCHANGED ret
    /\ UNCHANGED <<client, script, sentBefore, calls, path, body, buf, fullURL,
                   req, prev, prevURL, streamVars, fetchVars>>

\* resp, err := c.HTTPClient.Do(req); if err != nil { return nil, err }
\* for the first request (inLoop FALSE) and for a redirected one, after
\* which the loop statement increments try.
Do(inLoop) ==
    /\ nreq' = nreq + 1
    /\ sent' = IF Scripted THEN Append(sent, req) ELSE sent
    /\ \E rt \in Served :
          IF rt.err # NoErr
          THEN /\ ret' = [resp |-> NoResponse, err |-> rt.err]
               /\ hpc' = "returned"
               /\ UNCHANGED <<resp, n307, bodies, lastCookie, try>>
          ELSE /\ resp' = rt.resp
               /\ n307' = IF rt.resp.status = StatusTemporaryRedirect
                          THEN n307 + 1 ELSE n307
               /\ bodies' = Append(bodies, "open")
               /\ lastCookie' = IF rt.resp.setCookie # ""
                                THEN rt.resp.setCookie ELSE lastCookie
               /\ try' = IF inLoop THEN try + 1 ELSE try
               /\ hpc' = "loop"
               /\ UNCHANGED ret
    /\ UNCHANGED <<client, script, sentBefore, calls, path, body, buf, fullURL,
                   req, prev, prevURL, streamVars, fetchVars>>

PostDoFirst ==
    /\ hpc = "do"
    /\ Do(FALSE)

PostDoRedirect ==
    /\ hpc = "doloop"
    /\ Do(TRUE)

\* Variant: the loop takes one turn more.
LoopCondLate == resp.status = StatusTemporaryRedirect /\ try < tries + 1

\* Variant: the loop gives up one turn early.
LoopCondEarly == resp.status = StatusTemporaryRedirect /\ try < tries - 1

\* The loop condition: resp.StatusCode == 307 && try < tries
LoopCond == resp.status = StatusTemporaryRedirect /\ try < tries

\* Variant: every Location is taken for a relative one.
RedirectURLRelative(location) ==
    IF location = <<>> THEN fullURL ELSE BaseURL \o location

\* loc of the loop body: the Location header, the original URL when there
\* is none, prefixed by the base URL when it does not start with "http".
RedirectURL(location) ==
    IF location = <<>> THEN fullURL
    ELSE IF ~HasPrefixHttp(location) THEN BaseURL \o location
    ELSE location

\* Variant: the cookie of the request before is sent again.
RedirectCookieStale(setCookie) == req.cookie

\* The Cookie header of a redirected request: the Set-Cookie value of the
\* response it follows, if that sent one.
RedirectCookie(setCookie) == setCookie

\* Variant: the body is left as it is.
LeaveOpen(bs) == bs

\* ioutil.ReadAll(resp.Body); resp.Body.Close() on the body of the response
\* received last.
DrainAndClose(bs) == [bs EXCEPT ![Len(bs)] = "drained, closed"]

\* One turn of the loop body up to the Do: drain and close the body of the
\* 307, build the next POST, copy the cookie.
PostRedirect ==
    /\ hpc = "loop"
    /\ LoopCond
    /\ bodies' = DrainAndClose(bodies)
    /\ LET nr == newRequest("POST", RedirectURL(resp.location), buf)
       IN  IF nr.err # NoErr
           THEN /\ ret' = [resp |-> NoResponse, err |-> nr.err]
                /\ hpc' = "returned"
                /\ UNCHANGED <<req, prev, prevURL>>
           ELSE /\ req' = [nr.req EXCEPT !.hop = req.hop + 1,
                                         !.cookie = RedirectCookie(resp.setCookie)]
                /\ prev' = resp
                /\ prevURL' = req.url
                /\ hpc' = "doloop"
                /\ UNCHANGED ret
    /\ UNCHANGED <<client, script, sent, sentBefore, calls, path, body, buf,
                   fullURL, try, resp, lastCookie, nreq, n307, streamVars,
                   fetchVars>>

\* The test after the loop: try == tries
Exhausted == try = tries

\* After the loop: on exhaustion drain and close the body and return the
\* error, otherwise return the response.
PostReturn ==
    /\ hpc = "loop"
    /\ ~LoopCond
    /\ IF Exhausted
       THEN /\ bodies' = DrainAndClose(bodies)
            /\ ret' = [resp |-> NoResponse, err |-> ErrTooManyRedirects]
       ELSE /\ ret' = [resp |-> resp, err |-> NoErr]
            /\ UNCHANGED bodies
    /\ hpc' = "returned"
    /\ UNCHANGED <<client, script, sent, sentBefore, calls, path, body, buf,
                   fullURL, try, req, resp, prev, prevURL, lastCookie, nreq,
                   n307, streamVars, fetchVars>>

(***************************************************************************)
(* The request model of package events: Subset, Request, their Validate    *)
(* methods, and Fetch.                                                     *)
(*                                                                         *)
(* A Go pointer field is a record: set tells whether it is non-nil, val is *)
(* the value pointed to (the zero value under a nil pointer, never read).  *)
(* A float64 is a record too: NaN, or a number counted in tenths.          *)
(***************************************************************************)
StartFirst == "EARLIEST"
StartLast == "LATEST"
SubsetTypePartition == "PARTITION"
SubsetTypeSample == "SAMPLE"
LimitExceeded == "request was rate limited"
ErrUnexpectedStatus == "unexpected non-200 response"

ErrBothStartOffset == "only specify one of Start or Offset"
ErrPartitionUnset == "count and selection must be set for partition subsets"
ErrCount == "count < 1"
ErrSelection == "selection must be [0,count)"
ErrPartitionProportion == "proportion must not be set for partition subsets"
ErrSampleUnset == "proportion must be set for sample subsets"
ErrProportion == "proportion not between [0,1]"
ErrSampleCount == "count and selection must not be set for sample subsets"
ErrSubsetType == "invalid subset type"

\* The errors Validate can return.
ValidationErrors ==
    {ErrBothStartOffset, ErrPartitionUnset, ErrCount, ErrSelection,
     ErrPartitionProportion, ErrSampleUnset, ErrProportion, ErrSampleCount,
     ErrSubsetType}

\* float64 values.
Float(t) == [nan |-> FALSE, tenths |-> t]
NaN == [nan |-> TRUE, tenths |-> 0]
\* a < b on float64: every comparison with NaN is false.
FloatLess(a, b) == ~a.nan /\ ~b.nan /\ a.tenths < b.tenths

\* The values the fields are drawn from.
Counts == -1..MaxCount
Proportions == {NaN} \cup {Float(t) : t \in {-10, -1, 0, 5, 10, 11, 990}}
SubsetTypes == {"", SubsetTypePartition, SubsetTypeSample, "invalid"}
Starts == {StartFirst, StartLast, "invalid"}
ResumeOffsets == {0, 7}

NilInt == [set |-> FALSE, val |-> 0]
IntPtr(n) == [set |-> TRUE, val |-> n]
NilFloat == [set |-> FALSE, val |-> Float(0)]
FloatPtr(f) == [set |-> TRUE, val |-> f]
NilStart == [set |-> FALSE, val |-> ""]
StartPtr(v) == [set |-> TRUE, val |-> v]

\* type Subset struct, behind a *Subset: ptr tells whether the pointer is
\* non-nil.
NilSubset == [ptr |-> FALSE, type |-> "", proportion |-> NilFloat,
              count |-> NilInt, selection |-> NilInt]

Subsets ==
    {NilSubset} \cup
    [ptr : {TRUE}, type : SubsetTypes,
     proportion : {NilFloat} \cup {FloatPtr(f) : f \in Proportions},
     count : {NilInt} \cup {IntPtr(n) : n \in Counts},
     selection : {NilInt} \cup {IntPtr(n) : n \in Counts}]

\* SubsetPartition(count, selection)
SubsetPartition(count, selection) ==
    [ptr |-> TRUE, type |-> SubsetTypePartition, proportion |-> NilFloat,
     count |-> IntPtr(count), selection |-> IntPtr(selection)]

\* SubsetSample(proportion)
SubsetSample(proportion) ==
    [ptr |-> TRUE, type |-> SubsetTypeSample,
     proportion |-> FloatPtr(proportion),
     count |-> NilInt, selection |-> NilInt]

\* Variant: one of the two fields is enough.
PartitionUnsetBoth(s) == ~s.count.set /\ ~s.selection.set

\* s.Count == nil || s.Selection == nil
PartitionUnset(s) == ~s.count.set \/ ~s.selection.set

\* Variant: selection may equal count.
SelectionOutOfRangeIncl(count, selection) == selection < 0 \/ selection > count

\* *s.Selection < 0 || *s.Selection >= *s.Count
SelectionOutOfRange(count, selection) == selection < 0 \/ selection >= count

\* *s.Proportion < 0 || *s.Proportion > 1
ProportionOutOfRange(p) == FloatLess(p, Float(0)) \/ FloatLess(Float(10), p)

\* func (s *Subset) Validate() error
SubsetValidate(s) ==
    IF ~s.ptr THEN NoErr
    ELSE CASE s.type = SubsetTypePartition ->
                IF PartitionUnset(s) THEN ErrPartitionUnset
                ELSE IF s.count.val < 1 THEN ErrCount
                ELSE IF SelectionOutOfRange(s.count.val, s.selection.val)
                     THEN ErrSelection
                ELSE IF s.proportion.set THEN ErrPartitionProportion
                ELSE NoErr
           [] s.type = SubsetTypeSample ->
                IF ~s.proportion.set THEN ErrSampleUnset
                ELSE IF ProportionOutOfRange(s.proportion.val) THEN ErrProportion
                ELSE IF s.count.set \/ s.selection.set THEN ErrSampleCount
                ELSE NoErr
           [] OTHER -> ErrSubsetType

\* type Request struct: Start, Offset and Subset (the filters play no part
\* in validation).
Requests ==
    [start : {NilStart} \cup {StartPtr(v) : v \in Starts},
     offset : {NilInt} \cup {IntPtr(n) : n \in ResumeOffsets},
     subset : Subsets]

EmptyRequest == [start |-> NilStart, offset |-> NilInt, subset |-> NilSubset]

\* func (r *Request) Validate() error
RequestValidate(r) ==
    IF r.start.set /\ r.offset.set THEN ErrBothStartOffset
    ELSE SubsetValidate(r.subset)

\* What a Client's Post may return to Fetch: a response with some status
\* and a nil error, or no response and an error.
FetchStatuses == Statuses \cup {500}
NoOutcome == [status |-> 0, err |-> "unset"]
PostOutcomes ==
    {[status |-> st, err |-> NoErr] : st \in FetchStatuses}
        \cup {[status |-> 0, err |-> e] : e \in {ErrTooManyRedirects, ErrTransport}}

\* What Fetch returns: the Response ("nil" or "response"), the error, and
\* the status an unexpected-status error carries.
NoFetchReturn == [resp |-> "unset", err |-> "unset", code |-> 0]
FetchReturn(r, e, c) == [resp |-> r, err |-> e, code |-> c]

InitFetch ==
    /\ fpc = "idle"
    /\ freq = EmptyRequest
    /\ verr = "unset"
    /\ serr = "unset"
    /\ fposts = 0
    /\ fresp = NoOutcome
    /\ fret = NoFetchReturn

\* Variant: the request is posted whatever Validate says.
FetchCallUnchecked ==
    /\ fpc = "idle"
    /\ \E s \in {NilStart} \cup {StartPtr(v) : v \in Starts},
          o \in {NilInt} \cup {IntPtr(n) : n \in ResumeOffsets} :
          /\ freq' = [start |-> s, offset |-> o, subset |-> NilSubset]
          /\ verr' = RequestValidate(freq')
    /\ fpc' = "post"
    /\ UNCHANGED <<serr, fposts, fresp, fret, streamVars, postVars>>

\* Fetch(c, s, o, filters) up to the Post:
\*   req := &Request{Start: s, Offset: o, Filters: filters}
\*   if err := req.Validate(); err != nil { return nil, err }
FetchCall ==
    /\ fpc = "idle"
    /\ \E s \in {NilStart} \cup {StartPtr(v) : v \in Starts},
          o \in {NilInt} \cup {IntPtr(n) : n \in ResumeOffsets} :
          /\ freq' = [start |-> s, offset |-> o, subset |-> NilSubset]
          /\ verr' = RequestValidate(freq')
    /\ IF verr' # NoErr
       THEN /\ fret' = FetchReturn("nil", verr', 0)
            /\ fpc' = "returned"
       ELSE /\ fpc' = "post"
            /\ UNCHANGED fret
    /\ UNCHANGED <<serr, fposts, fresp, streamVars, postVars>>

\* Fetch called with the arguments s and o.
FetchWith(s, o) ==
    /\ FetchCall
    /\ freq' = [start |-> s, offset |-> o, subset |-> NilSubset]

\* FetchStart(c, filters...): s := StartFirst; return Fetch(c, &s, nil, filters)
FetchStart == FetchWith(StartPtr(StartFirst), NilInt)

\* FetchLatest(c, filters...): s := StartLast; return Fetch(c, &s, nil, filters)
FetchLatest == FetchWith(StartPtr(StartLast), NilInt)

\* FetchOffset(c, offset, filters...): return Fetch(c, nil, &offset, filters)
FetchOffset == \E n \in ResumeOffsets : FetchWith(NilStart, IntPtr(n))

\* json.Marshal(req) in Post: the keys of the JSON object. Start, Offset and
\* Subset are pointers tagged omitempty: a key is emitted exactly when the
\* pointer is not nil.
RequestKeys(r) ==
    (IF r.start.set THEN {"start"} ELSE {}) \cup
    (IF r.offset.set THEN {"resume_offset"} ELSE {}) \cup
    (IF r.subset.ptr THEN {"subset"} ELSE {})

\* resp, err := c.Post("events", req); if err != nil { return nil, err }
\* c is any Client: the call returns one of the outcomes of the interface.
FetchPost ==
    /\ fpc = "post"
    /\ fposts' = fposts + 1
    /\ \E o \in PostOutcomes :
          /\ fresp' = o
          /\ IF o.err # NoErr
             THEN /\ fret' = FetchReturn("nil", o.err, 0)
                  /\ fpc' = "returned"
             ELSE /\ fpc' = "newresponse"
                  /\ UNCHANGED fret
    /\ UNCHANGED <<freq, verr, serr, streamVars, postVars>>

\* Variant: a 402 is reported like any other unexpected status.
newResponseErrPlain(status) ==
    IF status # 200 THEN [err |-> ErrUnexpectedStatus, code |-> status]
    ELSE [err |-> NoErr, code |-> 0]

\* The status checks of newResponse: the error it returns, nil for a 200.
newResponseErr(status) ==
    IF status = 402 THEN [err |-> LimitExceeded, code |-> 0]
    ELSE IF status # 200 THEN [err |-> ErrUnexpectedStatus, code |-> status]
    ELSE [err |-> NoErr, code |-> 0]

\* return NewResponse(resp): on a status other than 200 the error and no
\* Response; on a 200 the Response is built, its producer goroutine is
\* started, and the Response is returned with a nil error.
FetchNewResponse ==
    /\ fpc = "newresponse"
    /\ LET e == newResponseErr(fresp.status)
       IN  IF e.err # NoErr
           THEN /\ fret' = FetchReturn("nil", e.err, e.code)
                /\ UNCHANGED ppc
           ELSE /\ fret' = FetchReturn("response", NoErr, 0)
                /\ ppc' = "decode"
    /\ fpc' = "returned"
    /\ UNCHANGED <<bodyVars, signalVars, outVars, mu, err, perr, ev,
                   closerVars, consumerVars, postVars, freq, verr, serr,
                   fposts, fresp>>

\* r.Subset.Validate() called on the subset of a request.
SubsetValidateCall ==
    /\ serr = "unset"
    /\ serr' = SubsetValidate(freq.subset)
    /\ UNCHANGED <<fpc, freq, verr, fposts, fresp, fret, streamVars, postVars>>

\* r.Validate() called on a request.
RequestValidateCall ==
    /\ verr = "unset"
    /\ verr' = RequestValidate(freq)
    /\ UNCHANGED <<fpc, freq, serr, fposts, fresp, fret, streamVars, postVars>>

(***************************************************************************)
(* The Response with its goroutines.                                       *)
(***************************************************************************)
Init ==
    /\ InitStream
    /\ InitPost
    /\ InitFetch

Next ==
    \/ Producer
    \/ \E c \in Closers : Close(c)
    \/ \E k \in Consumers : Consumer(k)

Spec == Init /\ [][Next]_vars

(***************************************************************************)
(* The same under the scheduling the Go runtime provides: a goroutine that *)
(* can run does run, a blocked receive is served when the channel has      *)
(* something for it, and a goroutine waiting for the mutex gets it. Whether*)
(* anyone calls Close() or Err() is up to the callers.                     *)
(***************************************************************************)
Fairness ==
    /\ WF_vars(DecodeRead \/ DecodeNext \/ DecodeReadFail)
    /\ SF_vars(ProducerLock)
    /\ WF_vars(ProducerSetErr \/ ProducerCloseOut \/ ProducerReturn)
    /\ WF_vars(ProducerSelect)
    /\ \A c \in Closers :
          /\ SF_vars(CloseLock(c))
          /\ WF_vars(CloseBody(c) \/ CloseSignal(c))
    /\ \A k \in Consumers :
          /\ SF_vars(Receive(k))
          /\ SF_vars(ReceiveClosed(k))
          /\ WF_vars(ErrReturn(k))

FairSpec == Init /\ [][Next]_vars /\ Fairness

(***************************************************************************)
(* A Response whose consumer lags behind or stops receiving: a long body   *)
(* of well-formed events, one consumer, one Close() call. The producer and *)
(* the Close() call are scheduled fairly; the consumer receives when it    *)
(* likes, or never again.                                                  *)
(***************************************************************************)
LongStreams ==
    {[i \in 1..n |-> [bad |-> FALSE, offset |-> 0, type |-> TypePush,
                      body |-> "object"]] : n \in 0..MaxBacklog}

InitBacklog ==
    /\ stream \in LongStreams
    /\ pos = 0
    /\ decoded = 0
    /\ bodyOpen = TRUE
    /\ bodyCloses = 0
    /\ closedCh = NewClosed
    /\ signals = 0
    /\ out = <<>>
    /\ outCh = "open"
    /\ outCloses = 0
    /\ outCloser = "none"
    /\ published = <<>>
    /\ mu = "free"
    /\ err = NoErr
    /\ ppc = "decode"
    /\ perr = NoErr
    /\ ev = NoEvent
    /\ cpc = [c \in Closers |-> "idle"]
    /\ crashed = FALSE
    /\ kpc = [k \in Consumers |-> "idle"]
    /\ received = [k \in Consumers |-> <<>>]
    /\ sawClosed = [k \in Consumers |-> FALSE]
    /\ errSeen = [k \in Consumers |-> NoErrCall]
    /\ acc = NoAcc
    /\ InitPost
    /\ InitFetch

NextBacklog ==
    \/ Producer
    \/ Close("c1")
    \/ Receive("k1")
    \/ ReceiveClosed("k1")

FairnessBacklog ==
    /\ WF_vars(DecodeRead \/ DecodeNext \/ DecodeReadFail)
    /\ SF_vars(ProducerLock)
    /\ WF_vars(ProducerSetErr \/ ProducerCloseOut \/ ProducerReturn)
    /\ WF_vars(ProducerSelect)
    /\ SF_vars(CloseLock("c1"))
    /\ WF_vars(CloseBody("c1") \/ CloseSignal("c1"))

SpecBacklog == InitBacklog /\ [][NextBacklog]_vars /\ FairnessBacklog

(***************************************************************************)
(* The client making Post calls against a server.                          *)
(***************************************************************************)
\* No Response exists: the stream variables are at rest.
InitNoStream ==
    /\ stream = <<>>
    /\ pos = 0
    /\ decoded = 0
    /\ bodyOpen = TRUE
    /\ bodyCloses = 0
    /\ closedCh = NewClosed
    /\ signals = 0
    /\ out = <<>>
    /\ outCh = "open"
    /\ outCloses = 0
    /\ outCloser = "none"
    /\ published = <<>>
    /\ mu = "free"
    /\ err = NoErr
    /\ ppc = "none"
    /\ perr = NoErr
    /\ ev = NoEvent
    /\ cpc = [c \in Closers |-> "idle"]
    /\ crashed = FALSE
    /\ kpc = [k \in Consumers |-> "idle"]
    /\ received = [k \in Consumers |-> <<>>]
    /\ sawClosed = [k \in Consumers |-> FALSE]
    /\ errSeen = [k \in Consumers |-> NoErrCall]
    /\ acc = NoAcc

\* The clients NewClient makes.
Clients == {NewClient(key, "secret") : key \in Keys}

InitClient ==
    /\ InitNoStream
    /\ client \in Clients
    /\ script = <<>>
    /\ InitCall
    /\ InitFetch

NextPost ==
    \/ PostCall
    \/ PostDoFirst
    \/ PostRedirect
    \/ PostDoRedirect
    \/ PostReturn

SpecPost == InitClient /\ [][NextPost]_vars

(***************************************************************************)
(* Post calls, one after the other, against a scripted server: every call  *)
(* gets the same answers, and what each call sends is kept for comparison. *)
(***************************************************************************)
InitReplay ==
    /\ InitNoStream
    /\ client = NewClient("key1", "secret")
    /\ script \in Scripts
    /\ InitCall
    /\ InitFetch

SpecReplay == InitReplay /\ [][NextPost]_vars

(***************************************************************************)
(* Post calls whose round trips all return: the calling goroutine keeps    *)
(* running until Post returns. Whether Post is called is up to the caller. *)
(***************************************************************************)
FairnessPost ==
    WF_vars(PostDoFirst \/ PostRedirect \/ PostDoRedirect \/ PostReturn)

FairSpecPost == InitClient /\ [][NextPost]_vars /\ FairnessPost

(***************************************************************************)
(* Fetch called with any start and offset on any Client, the server        *)
(* sending any body with a 200.                                            *)
(***************************************************************************)
\* No Response exists yet; the body is what the server will send.
InitNoResponse ==
    /\ stream \in Streams
    /\ pos = 0
    /\ decoded = 0
    /\ bodyOpen = TRUE
    /\ bodyCloses = 0
    /\ closedCh = NewClosed
    /\ signals = 0
    /\ out = <<>>
    /\ outCh = "open"
    /\ outCloses = 0
    /\ outCloser = "none"
    /\ published = <<>>
    /\ mu = "free"
    /\ err = NoErr
    /\ ppc = "none"
    /\ perr = NoErr
    /\ ev = NoEvent
    /\ cpc = [c \in Closers |-> "idle"]
    /\ crashed = FALSE
    /\ kpc = [k \in Consumers |-> "idle"]
    /\ received = [k \in Consumers |-> <<>>]
    /\ sawClosed = [k \in Consumers |-> FALSE]
    /\ errSeen = [k \in Consumers |-> NoErrCall]
    /\ acc = NoAcc

InitFetchCall ==
    /\ InitNoResponse
    /\ InitPost
    /\ InitFetch

NextFetch ==
    \/ FetchStart
    \/ FetchLatest
    \/ FetchOffset
    \/ FetchCall
    \/ FetchPost
    \/ FetchNewResponse
    \/ Producer

SpecFetch == InitFetchCall /\ [][NextFetch]_vars

(***************************************************************************)
(* Validate applied to any request and to any subset.                      *)
(***************************************************************************)
InitValidate ==
    /\ InitNoStream
    /\ InitPost
    /\ fpc = "idle"
    /\ freq \in Requests
    /\ verr = "unset"
    /\ serr = "unset"
    /\ fposts = 0
    /\ fresp = NoOutcome
    /\ fret = NoFetchReturn

NextValidate ==
    \/ SubsetValidateCall
    \/ RequestValidateCall

SpecValidate == InitValidate /\ [][NextValidate]_vars

(***************************************************************************)
(* The typed accessors called on any event in the hands of a caller.       *)
(***************************************************************************)
\* The events a caller may hold.
AllEvents ==
    [seq : {1}, offset : {0}, type : EventTypes \cup UnknownTypes,
     body : BodyKinds]

InitAccessor ==
    /\ stream = <<>>
    /\ pos = 0
    /\ decoded = 0
    /\ bodyOpen = TRUE
    /\ bodyCloses = 0
    /\ closedCh = NewClosed
    /\ signals = 0
    /\ out = <<>>
    /\ outCh = "open"
    /\ outCloses = 0
    /\ outCloser = "none"
    /\ published = <<>>
    /\ mu = "free"
    /\ err = NoErr
    /\ ppc = "none"
    /\ perr = NoErr
    /\ ev = NoEvent
    /\ cpc = [c \in Closers |-> "idle"]
    /\ crashed = FALSE
    /\ kpc = [k \in Consumers |-> "idle"]
    /\ \E e \in AllEvents :
          received = [k \in Consumers |-> IF k = "k1" THEN <<e>> ELSE <<>>]
    /\ sawClosed = [k \in Consumers |-> FALSE]
    /\ errSeen = [k \in Consumers |-> NoErrCall]
    /\ acc = NoAcc
    /\ InitPost
    /\ InitFetch

NextAccessor == Accessors("k1")

SpecAccessor == InitAccessor /\ [][NextAccessor]_vars

(***************************************************************************)
(* A Response streaming events of various types and bodies to a consumer   *)
(* that calls the typed accessors on the events it receives.               *)
(***************************************************************************)
TypedItems ==
    [bad : {FALSE}, offset : {0}, type : {TypePush, TypeLocation, "RICH_READ"},
     body : BodyKinds]
        \cup {[bad |-> TRUE, offset |-> 0, type |-> TypePush, body |-> "object"]}

TypedStreams == SeqsUpTo(TypedItems, MaxTypedBody)

InitTyped ==
    /\ stream \in TypedStreams
    /\ pos = 0
    /\ decoded = 0
    /\ bodyOpen = TRUE
    /\ bodyCloses = 0
    /\ closedCh = NewClosed
    /\ signals = 0
    /\ out = <<>>
    /\ outCh = "open"
    /\ outCloses = 0
    /\ outCloser = "none"
    /\ published = <<>>
    /\ mu = "free"
    /\ err = NoErr
    /\ ppc = "decode"
    /\ perr = NoErr
    /\ ev = NoEvent
    /\ cpc = [c \in Closers |-> "idle"]
    /\ crashed = FALSE
    /\ kpc = [k \in Consumers |-> "idle"]
    /\ received = [k \in Consumers |-> <<>>]
    /\ sawClosed = [k \in Consumers |-> FALSE]
    /\ errSeen = [k \in Consumers |-> NoErrCall]
    /\ acc = NoAcc
    /\ InitPost
    /\ InitFetch

NextTyped ==
    \/ Producer
    \/ Receive("k1")
    \/ ReceiveClosed("k1")
    \/ Accessors("k1")

SpecTyped == InitTyped /\ [][NextTyped]_vars

(***************************************************************************)
(* Properties of Response.Close.                                           *)
(***************************************************************************)
\* Some Close() call has run to its end, by returning or by panicking.
CloseEnded == \E c \in Closers : cpc[c] \in {"returned", "panicked"}

\* Some Close() call has been started.
CloseCalled == \E c \in Closers : cpc[c] # "idle"

\* C1: every Close() call, whether alone, after another or concurrent with
\* another, returns normally: none of them panics.
C1_CloseReturnsNormally == \A c \in Closers : cpc[c] # "panicked"

\* C2: over all Close() calls the body is closed exactly once and the close
\* signal fires exactly once, both done by the time the first call has
\* ended.
C2_ClosedExactlyOnce ==
    /\ bodyCloses <= 1
    /\ signals <= 1
    /\ CloseEnded => (~bodyOpen /\ bodyCloses = 1 /\ signals = 1)

(***************************************************************************)
(* Properties of the producer and the hand-off channel.                    *)
(***************************************************************************)
\* Every consumer has been told by a receive that the channel is closed.
AllSawClosed == \A k \in Consumers : sawClosed[k]

\* C3: the producer, however it terminates, has closed the hand-off
\* channel, exactly once; and once Close() has run, the consumers, which
\* are blocked receiving, come to see the channel closed.
C3_ProducerClosesChannel ==
    /\ [](outCloses <= 1)
    /\ [](ppc = "done" => (outCh = "closed" /\ outCloser = "producer"))
    /\ (CloseEnded ~> AllSawClosed)

(***************************************************************************)
(* Properties of Client.Post.                                              *)
(***************************************************************************)
\* Post gave up because it could not build or send one of its requests.
RequestFailed == ret.err \in {ErrMarshal, ErrURL, ErrTransport}

\* Post has returned after every request it made was answered with a 307.
Only307s == hpc = "returned" /\ ~RequestFailed /\ n307 = nreq

\* C4: when every request of a Post call is answered with 307, the call
\* makes exactly 11 requests, the first and 10 redirected ones, and returns
\* ErrTooManyRedirects with no response, whatever the body.
C4_RedirectExhaustion ==
    Only307s => /\ nreq = tries + 1
                /\ ret.err = ErrTooManyRedirects
                /\ ret.resp = NoResponse

\* C4 happens: a call with a non-empty body has run into the limit.
C4_Witness ==
    /\ Only307s
    /\ nreq = tries + 1
    /\ buf # ""
    /\ req.body = buf
    /\ ret.err = ErrTooManyRedirects

\* C5: Post returns ErrTooManyRedirects only when the last response is a
\* 307 and the count has reached 10; when the last response, the first or
\* that to any of the up to 10 redirected requests, is no 307, Post returns
\* it with a nil error.
C5_FinalResponseReturned ==
    /\ (hpc = "returned" /\ ret.err = ErrTooManyRedirects)
          => (resp.status = StatusTemporaryRedirect /\ try = tries)
    /\ (hpc = "returned" /\ ~RequestFailed /\ nreq >= 1
          /\ resp.status # StatusTemporaryRedirect)
          => (ret.resp = resp /\ ret.err = NoErr)

\* C6: the first request of a call carries no cookie; a redirected request
\* follows a 307 and, if that 307 set a cookie, carries just that value.
C6_CookieEcho ==
    /\ req.hop = 0 => req.cookie = ""
    /\ req.hop > 0 =>
          /\ prev.status = StatusTemporaryRedirect
          /\ prev.setCookie # "" => req.cookie = prev.setCookie

\* C6 happens: the second redirected request carries the second cookie
\* value, and the answer to it sets the first value again.
C6_Witness ==
    /\ hpc = "loop"
    /\ req.hop = 2
    /\ prev.setCookie = "c2"
    /\ req.cookie = "c2"
    /\ resp.setCookie = "c1"

(***************************************************************************)
(* Properties of the event stream.                                         *)
(***************************************************************************)
\* The body holds well-formed events only.
WellFormed == \A i \in 1..Len(stream) : ~stream[i].bad

\* The events the decoder has decoded, by their place in the body.
DecodedEvents == {i \in 1..decoded : ~stream[i].bad}

\* How often the event at place i of the body was received, by anyone.
Deliveries(i) ==
    Cardinality({<<k, j>> \in Consumers \X (1..MaxBody + 1) :
                    j <= Len(received[k]) /\ received[k][j].seq = i})

\* Something other than a new call of Close() or Err() can happen.
CanProceed ==
    ENABLED (Producer \/ \E k \in Consumers :
                            Receive(k) \/ ReceiveClosed(k) \/ ErrReturn(k))

\* C7: with a body of N well-formed events and no Close(), the stream does
\* not stop before every consumer has seen the channel closed; a consumer
\* that has seen it closed finds all N events delivered and the terminal
\* error io.EOF, and an Err() call it makes from then on returns io.EOF.
C7_CleanEndOfStream ==
    (WellFormed /\ ~CloseCalled) =>
        /\ ~AllSawClosed => CanProceed
        /\ \A k \in Consumers :
              sawClosed[k] =>
                  /\ \A i \in 1..Len(stream) : Deliveries(i) = 1
                  /\ err = EOF
                  /\ errSeen[k].afterClosed => errSeen[k].val = EOF

\* C7 happens: two events went to two consumers, and one of them then saw
\* the channel closed and got io.EOF from Err().
C7_Witness ==
    /\ WellFormed /\ ~CloseCalled
    /\ Len(stream) = 2
    /\ Len(received["k1"]) = 1 /\ Len(received["k2"]) = 1
    /\ sawClosed["k1"]
    /\ errSeen["k1"] = [val |-> EOF, afterClosed |-> TRUE]

\* C8: no event is received twice, by one consumer or by two; and when the
\* stream has ended without Close() and the channel is drained, every
\* decoded event has been received exactly once.
C8_ExactlyOnce ==
    /\ \A i \in 1..Len(stream) : Deliveries(i) <= 1
    /\ (~CloseCalled /\ outCh = "closed" /\ out = <<>>)
          => \A i \in DecodedEvents : Deliveries(i) = 1

\* C8 happens: a stream of three events ended with both consumers having
\* received some of them.
C8_Witness ==
    /\ ~CloseCalled /\ outCh = "closed" /\ out = <<>>
    /\ decoded = 3 /\ WellFormed
    /\ Len(received["k1"]) = 2 /\ Len(received["k2"]) = 1

\* q is sorted by f, weakly (strict FALSE) or strictly.
Sorted(q, f(_), strict) ==
    \A i, j \in 1..Len(q) :
        i < j => IF strict THEN f(q[i]) < f(q[j]) ELSE f(q[i]) <= f(q[j])

SeqOf(e) == e.seq
OffsetOf(e) == e.offset

\* C9: the events are published in the order of the body; each consumer
\* receives its events in that order, a consumer that is alone receives a
\* prefix of the body, and when the offsets of the body do not decrease,
\* neither do those of the events a consumer receives.
C9_OrderPreserved ==
    /\ \A i \in 1..Len(published) :
          published[i].seq = i /\ published[i].offset = stream[i].offset
    /\ \A k \in Consumers :
          /\ Sorted(received[k], SeqOf, TRUE)
          /\ (\A o \in Consumers \ {k} : received[o] = <<>>)
                => \A i \in 1..Len(received[k]) : received[k][i].seq = i
          /\ Sorted(stream, OffsetOf, FALSE)
                => Sorted(received[k], OffsetOf, FALSE)

\* C9 happens: one consumer alone has received three events of rising
\* offset.
C9_Witness ==
    /\ Len(received["k1"]) = 3
    /\ received["k2"] = <<>>
    /\ received["k1"][1].offset < received["k1"][3].offset
    /\ Sorted(stream, OffsetOf, FALSE)

\* C10: once Close() has fired the close signal, the producer places no
\* further event on the hand-off channel.
C10_NoPublicationAfterClose ==
    [][CloseEnded => published' = published]_vars

(***************************************************************************)
(* Properties of the end of the stream.                                    *)
(***************************************************************************)
\* C11: once a Close() call has ended and the program runs on, the producer
\* goroutine terminates, also when it holds an event, the channel buffer is
\* full and no consumer receives again.
C11_ProducerExitsAfterClose ==
    (CloseEnded /\ Running) ~> (ppc = "done")

\* C12: whenever Err() reads the terminal error it finds nil if and only if
\* the hand-off channel is still open; so an Err() that returned an error
\* did so with the channel closed, and an Err() called by a consumer that
\* has seen the channel closed never returns nil.
C12_TerminalErrorVisibility ==
    \A k \in Consumers :
        /\ kpc[k] = "err" => (err = NoErr <=> outCh = "open")
        /\ errSeen[k].val \notin {"unset", NoErr} => outCh = "closed"
        /\ errSeen[k].afterClosed => errSeen[k].val # NoErr

\* C12 happens: Close() was called, a malformed object ended the stream,
\* and a consumer that saw the channel closed got the error from Err().
C12_Witness ==
    /\ CloseCalled
    /\ Len(received["k1"]) >= 1
    /\ errSeen["k1"] = [val |-> SyntaxError, afterClosed |-> TRUE]

\* C13: the I/O error that closing the body gives a decode is never what
\* Err() returns.
C13_CancellationNotSurfaced ==
    \A k \in Consumers : errSeen[k].val # ReadAfterClose

(***************************************************************************)
(* Properties of Fetch.                                                    *)
(***************************************************************************)
\* Fetch has returned after Post delivered a response.
FetchAnswered == fpc = "returned" /\ fposts = 1 /\ fresp.err = NoErr

\* A Response exists and its producer goroutine was started.
ProducerStarted == ppc # "none"

\* C14: on a 200 Fetch returns a Response with a started producer and a nil
\* error; on a 402 LimitExceeded; on any other status the generic error
\* carrying the status; in both failure cases the Response is nil and no
\* producer is started.
C14_StatusMapping ==
    /\ FetchAnswered =>
          CASE fresp.status = 200 ->
                  fret = FetchReturn("response", NoErr, 0) /\ ProducerStarted
            [] fresp.status = 402 ->
                  fret = FetchReturn("nil", LimitExceeded, 0) /\ ~ProducerStarted
            [] OTHER ->
                  /\ fret = FetchReturn("nil", ErrUnexpectedStatus, fresp.status)
                  /\ ~ProducerStarted
    /\ ProducerStarted => (FetchAnswered /\ fresp.status = 200)

\* C14 happens: Fetch returned a Response for a 200 and its producer has
\* published the first event of the body.
C14_Witness ==
    /\ FetchAnswered
    /\ fresp.status = 200
    /\ fret.resp = "response"
    /\ Len(published) = 1

\* C15: when Validate fails Fetch returns its error and a nil Response
\* without a call of Post; when it passes Post is called exactly once, and an
\* error of Post is returned as it is with a nil Response.
C15_ValidationPrecedesNetwork ==
    /\ verr \notin {"unset", NoErr} =>
          (fpc = "returned" /\ fposts = 0 /\ fret = FetchReturn("nil", verr, 0))
    /\ fpc = "post" => fposts = 0
    /\ (verr = NoErr /\ fpc \in {"newresponse", "returned"}) => fposts = 1
    /\ fresp.err \notin {"unset", NoErr} =>
          (fpc = "returned" /\ fret = FetchReturn("nil", fresp.err, 0))

\* C15 happens: a Fetch with both start and offset has returned the
\* validation error.
C15_Witness ==
    /\ fpc = "returned"
    /\ freq.start = StartPtr(StartFirst) /\ freq.offset.set
    /\ fret.err = ErrBothStartOffset
    /\ fposts = 0

(***************************************************************************)
(* Properties of Validate.                                                 *)
(***************************************************************************)
\* The start/offset combinations the request model allows: a recognized
\* start without offset, or no start with an offset to resume from.
StartOffsetAllowed(r) ==
    \/ r.start.set /\ r.start.val \in {StartFirst, StartLast} /\ ~r.offset.set
    \/ ~r.start.set /\ r.offset.set

\* C16: Request.Validate accepts a request (without subset) exactly when
\* it has a recognized start and no offset, or an offset and no start.
C16_StartOffsetExclusive ==
    (verr # "unset" /\ ~freq.subset.ptr) =>
        (verr = NoErr <=> StartOffsetAllowed(freq))

\* The start of the request is none of the recognized values.
UnknownStart == freq.start.set /\ freq.start.val \notin {StartFirst, StartLast}

\* C17: a Fetch with an unrecognized start returns a validation error and
\* a nil Response, and Post is not called.
C17_UnknownStartRejected ==
    (fpc # "idle" /\ UnknownStart) =>
        /\ fpc = "returned"
        /\ fposts = 0
        /\ fret.resp = "nil"
        /\ fret.err \in ValidationErrors

\* C18: Subset.Validate accepts SubsetPartition(count, selection) exactly
\* when count >= 1 and 0 <= selection < count.
C18_PartitionBounds ==
    \A c, n \in Counts :
        (freq.subset = SubsetPartition(c, n) /\ serr # "unset") =>
            (serr = NoErr <=> (c >= 1 /\ 0 <= n /\ n < c))

\* C18 happens: the last partition of the largest count was accepted.
C18_Witness ==
    /\ freq.subset = SubsetPartition(MaxCount, MaxCount - 1)
    /\ serr = NoErr

\* 0 <= p <= 1 on float64.
InUnitInterval(p) == ~p.nan /\ 0 <= p.tenths /\ p.tenths <= 10

\* C19: Subset.Validate accepts SubsetSample(p) exactly when 0 <= p <= 1.
C19_SampleBounds ==
    \A p \in Proportions :
        (freq.subset = SubsetSample(p) /\ serr # "unset") =>
            (serr = NoErr <=> InUnitInterval(p))

\* Exactly one variant of the subset is populated.
OneVariant(s) ==
    \/ /\ s.type = SubsetTypePartition
       /\ s.count.set /\ s.selection.set /\ ~s.proportion.set
    \/ /\ s.type = SubsetTypeSample
       /\ s.proportion.set /\ ~s.count.set /\ ~s.selection.set

\* C20: Subset.Validate accepts a nil subset, and accepts a non-nil subset
\* only if exactly one variant is populated.
C20_SubsetVariantDiscipline ==
    serr # "unset" =>
        /\ ~freq.subset.ptr => serr = NoErr
        /\ (freq.subset.ptr /\ serr = NoErr) => OneVariant(freq.subset)

\* C20 happens: a SAMPLE with a good proportion that also carries a count
\* was rejected.
C20_Witness ==
    /\ freq.subset.type = SubsetTypeSample
    /\ freq.subset.proportion = FloatPtr(Float(5))
    /\ freq.subset.count.set
    /\ serr = ErrSampleCount

(***************************************************************************)
(* Properties of the redirect chain of Client.Post.                        *)
(***************************************************************************)
\* C26: a redirected request that follows a 307 without Location goes to
\* the URL of the request that this 307 answered.
C26_LocationlessRedirect ==
    (hpc = "doloop" /\ prev.location = <<>>) => req.url = prevURL

\* C27: the body is marshaled once from the body argument; every request
\* of the call is a POST carrying just these bytes, with Content-Type
\* application/json exactly when they are not empty; a nil body gives an
\* empty body on every hop.
C27_BodyPreserved ==
    /\ hpc # "idle" => buf = Marshal(body).buf
    /\ req.hop >= 0 =>
          /\ req.method = "POST"
          /\ req.body = buf
          /\ req.contentType = "application/json" <=> buf # ""
          /\ body = "nil" => req.body = ""

\* C27 happens: the second redirected request carries the marshaled body.
C27_Witness ==
    /\ hpc = "doloop"
    /\ req.hop = 2
    /\ body = "bytes"
    /\ req.body = "\"e30=\""
    /\ req.contentType = "application/json"

\* C28: a failed round trip makes Post return that error with no response
\* at once; a request is sent only by a call that has not returned; and
\* Post never returns a response together with an error.
C28_TransportFailureStops ==
    /\ [](ret.err = ErrTransport => (hpc = "returned" /\ ret.resp = NoResponse))
    /\ [](ret.resp # NoResponse => ret.err = NoErr)
    /\ [][nreq' > nreq => (ret.err = "unset" /\ hpc \in {"do", "doloop"})]_vars

\* C28 happens: the round trip of the second redirected request failed.
C28_Witness ==
    /\ hpc = "returned"
    /\ ret = [resp |-> NoResponse, err |-> ErrTransport]
    /\ nreq = 3
    /\ n307 = 2

\* The response bodies of this call that are open.
OpenBodies == {i \in 1..Len(bodies) : bodies[i] = "open"}

\* C29: only the body of the response received last can be open; when the
\* next request is about to be sent every body is drained and closed; when
\* Post has returned, a body is open exactly if its response was returned.
C29_BodiesDrainedClosed ==
    /\ Cardinality(OpenBodies) <= 1
    /\ OpenBodies \subseteq {Len(bodies)}
    /\ hpc = "doloop" => OpenBodies = {}
    /\ hpc = "returned" => (OpenBodies # {} <=> ret.resp # NoResponse)

\* C29 happens: the call ran out of redirects with all 11 bodies closed.
C29_Witness ==
    /\ hpc = "returned"
    /\ ret.err = ErrTooManyRedirects
    /\ Len(bodies) = tries + 1
    /\ OpenBodies = {}

\* C30: a redirected request carries the last Set-Cookie value received so
\* far in this call.
C30_LastCookieRetained ==
    hpc = "doloop" => req.cookie = lastCookie

(***************************************************************************)
(* Properties of the requests Fetch builds.                                *)
(***************************************************************************)
\* The start of the request is EARLIEST or LATEST.
RecognizedStart == freq.start.set /\ freq.start.val \in {StartFirst, StartLast}

\* C21: a Fetch with start EARLIEST or LATEST builds a request without
\* offset that passes validation, whatever offset argument came with it;
\* a request handed to Post is serialized with start and no resume_offset
\* when its start is EARLIEST or LATEST, and with resume_offset and no
\* start when it resumes by offset.
C21_SerializedExclusivity ==
    /\ (fpc # "idle" /\ RecognizedStart) => (~freq.offset.set /\ verr = NoErr)
    /\ (fposts >= 1 /\ RecognizedStart) => RequestKeys(freq) = {"start"}
    /\ (fposts >= 1 /\ freq.offset.set) => RequestKeys(freq) = {"resume_offset"}

(***************************************************************************)
(* Properties of the typed accessors and of streams of typed events.       *)
(***************************************************************************)
\* C22: an accessor called on an event of another type, known or unknown,
\* returns WrongType and no payload, and does not hand the body to
\* json.Unmarshal.
C22_WrongTypeOnMismatch ==
    (acc # NoAcc /\ acc.type # acc.kind) =>
        /\ acc.err = WrongType
        /\ acc.payload = "nil"
        /\ ~acc.unmarshalled

\* C22 happens: Location() was called on an event of an unknown type whose
\* body is no JSON object.
C22_Witness ==
    /\ acc.kind = TypeLocation
    /\ acc.type = "RICH_READ"
    /\ Len(received["k1"]) = 1
    /\ received["k1"][1].body = "array"
    /\ acc.err = WrongType

\* The place of the first malformed object of the body, one past the end
\* when there is none.
FirstBad ==
    IF \E i \in 1..Len(stream) : stream[i].bad
    THEN CHOOSE i \in 1..Len(stream) :
            stream[i].bad /\ \A j \in 1..(i - 1) : ~stream[j].bad
    ELSE Len(stream) + 1

\* C23: when the k-th object of the body is malformed, only events before
\* it are ever published, in order; and without a Close() the stream does
\* not stop before the consumers see the channel closed, a consumer that
\* has seen it closed finds the k-1 events delivered and the terminal error
\* the decode error, which Err() returns from then on.
C23_EnvelopeErrorTerminates ==
    FirstBad <= Len(stream) =>
        /\ \A i \in 1..Len(published) : published[i].seq = i /\ i < FirstBad
        /\ decoded <= FirstBad
        /\ ~CloseCalled =>
              /\ ~AllSawClosed => CanProceed
              /\ \A k \in Consumers :
                    sawClosed[k] =>
                        /\ \A i \in 1..(FirstBad - 1) : Deliveries(i) = 1
                        /\ err = SyntaxError
                        /\ errSeen[k].afterClosed => errSeen[k].val = SyntaxError

\* C23 happens: the second of three objects was malformed; the consumer
\* got the first event, saw the channel closed and got the decode error.
C23_Witness ==
    /\ ~CloseCalled
    /\ Len(stream) = 3 /\ FirstBad = 2 /\ ~stream[3].bad
    /\ Len(received["k1"]) = 1
    /\ sawClosed["k1"]
    /\ errSeen["k1"] = [val |-> SyntaxError, afterClosed |-> TRUE]

\* The stream can go on: the producer or the receiving consumer can act.
TypedCanProceed ==
    ENABLED (Producer \/ Receive("k1") \/ ReceiveClosed("k1"))

\* C24: an accessor call, whatever it returns, changes nothing of the
\* Response, its producer and its channel; the stream does not stop before
\* the consumer sees the channel closed, and then every event up to the end
\* of the body or its first malformed object has been delivered.
C24_AccessorFrame ==
    /\ [][acc' # acc =>
            UNCHANGED <<bodyVars, signalVars, outVars, mu, err, producerVars,
                        closerVars, kpc, received, sawClosed, errSeen>>]_vars
    /\ [](~sawClosed["k1"] => TypedCanProceed)
    /\ [](sawClosed["k1"] => Len(received["k1"]) = FirstBad - 1)

\* C24 happens: PushBody() failed to decode the body of the first event,
\* and the second event was received after that.
C24_Witness ==
    /\ acc.seq = 1
    /\ acc.kind = TypePush
    /\ acc.err = ErrUnmarshalType
    /\ Len(received["k1"]) = 2

\* C25: the objects of the body are published in order whatever their
\* type; the stream is delivered up to the end of the body or its first
\* malformed object; and every accessor called on an event of a type
\* outside the enumeration returns WrongType.
C25_UnknownKindsDelivered ==
    /\ \A i \in 1..Len(published) :
          published[i].seq = i /\ published[i].type = stream[i].type
    /\ ~sawClosed["k1"] => TypedCanProceed
    /\ sawClosed["k1"] => Len(received["k1"]) = FirstBad - 1
    /\ (acc # NoAcc /\ acc.type \notin EventTypes) =>
          (acc.err = WrongType /\ acc.payload = "nil")

\* C25 happens: an event of unknown type came first, an accessor called on
\* it returned WrongType, and the event after it was received too.
C25_Witness ==
    /\ Len(stream) = 2
    /\ stream[1].type = "RICH_READ"
    /\ acc.seq = 1
    /\ acc.err = WrongType
    /\ Len(received["k1"]) = 2
    /\ received["k1"][2].type = TypePush

(***************************************************************************)
(* Properties of consecutive Post calls.                                   *)
(***************************************************************************)
\* This call has the arguments of the call before it.
SameCallAgain ==
    /\ calls >= 2
    /\ sentBefore.url = fullURL
    /\ sentBefore.body = body

\* C31: the first request of every Post call carries no Cookie header,
\* whatever cookies earlier calls on the client were sent; and a call with
\* the arguments of the call before it, against the same server, sends the
\* same requests in the same order.
C31_CookiesNotPersisted ==
    /\ (hpc = "do" => req.cookie = "")
    /\ (Len(sent) >= 1 => sent[1].cookie = "")
    /\ SameCallAgain =>
          /\ Len(sent) <= Len(sentBefore.reqs)
          /\ \A i \in 1..Len(sent) : sent[i] = sentBefore.reqs[i]
          /\ (hpc = "returned" => Len(sent) = Len(sentBefore.reqs))

\* C31 happens: the first call was redirected with a cookie, echoed it and
\* got a final answer setting the cookie again; the second call, with the
\* same arguments, has returned after the same two requests.
C31_Witness ==
    /\ SameCallAgain
    /\ hpc = "returned"
    /\ Len(sent) = 2
    /\ sent[2].cookie = "c1"
    /\ resp.setCookie = "c1"
    /\ lastCookie = "c1"
    /\ sentBefore.reqs = sent

(***************************************************************************)
(* Properties of the operations on the hand-off channel.                   *)
(***************************************************************************)
\* C32: however the producer, the consumers and the Close() calls are
\* interleaved, the hand-off channel is closed at most once and by the
\* producer, no close of it panics, no event is placed on it once it is
\* closed, and no step of Close() changes it.
C32_ChannelOperationSafety ==
    /\ [](outCloses <= 1)
    /\ [](outCloser \in {"none", "producer"})
    /\ [](ppc # "panicked")
    /\ [][outCh = "closed" => (outCh' = "closed" /\ published' = published)]_vars
    /\ [][(\E c \in Closers : Close(c)) =>
            (outCh' = outCh /\ outCloses' = outCloses /\ out' = out)]_vars

\* C32 happens: events were handed over, both Close() calls have run to
\* their end, the producer has closed the channel and returned, and the
\* consumers have seen it closed.
C32_Witness ==
    /\ \A c \in Closers : cpc[c] \in {"returned", "panicked"}
    /\ Len(published) >= 2
    /\ outCh = "closed"
    /\ outCloses = 1
    /\ ppc = "done"
    /\ AllSawClosed

(***************************************************************************)
(* Properties of the mutex.                                                *)
(***************************************************************************)
\* C33: a Close() or Err() call that holds the mutex finds the terminal
\* error set exactly when the hand-off channel is closed; and under fair
\* scheduling every Close() call that was made gets the mutex and returns,
\* and every Err() call that holds the mutex returns.
C33_LockDiscipline ==
    /\ [](\A g \in Closers \cup Consumers :
             mu = g => (err = NoErr <=> outCh = "open"))
    /\ \A c \in Closers : (cpc[c] = "lock") ~> (cpc[c] = "returned")
    /\ \A k \in Consumers : (kpc[k] = "err") ~> (kpc[k] = "idle")

(***************************************************************************)
(* Properties of the read-ahead of the producer.                           *)
(***************************************************************************)
\* The events the producer holds: the one decoded and not yet handed over.
Held == IF ev = NoEvent THEN 0 ELSE 1

\* The events the consumers have received, all together.
ReceivedCount == Len(received["k1"]) + Len(received["k2"])

\* C34: the hand-off channel holds at most 10 events and the producer one
\* more, so that the objects decoded exceed the events received by at most
\* 11; and while nobody has received and Close() was not called, every
\* event decoded is in the channel, in order, or in the producer's hand,
\* and with the channel full the producer cannot take a step.
C34_BoundedReadAhead ==
    /\ Len(out) <= OutCap
    /\ decoded - ReceivedCount <= OutCap + 1
    /\ (~CloseCalled /\ ReceivedCount = 0) =>
          /\ out = published
          /\ decoded = Len(out) + Held
          /\ \A i \in 1..Len(out) : out[i].seq = i
          /\ Held = 1 => ev.seq = decoded
          /\ (ppc = "select" /\ Len(out) = OutCap) => ~ENABLED Producer

\* C34 happens: of a body of 12 events, 10 are in the channel and the 11th
\* is in the hand of the producer, which is at its select; nobody has
\* received and Close() was not called.
C34_Witness ==
    /\ Len(stream) = 12
    /\ ~CloseCalled
    /\ ReceivedCount = 0
    /\ Len(out) = OutCap
    /\ ppc = "select"
    /\ Held = 1
    /\ decoded = OutCap + 1

(***************************************************************************)
(* Properties of the requests of one Post call.                            *)
(***************************************************************************)
\* C35: the first request of a call goes to the base URL, a slash, the url
\* argument and a slash; a request that follows a 307 with a Location goes
\* to the base URL followed by the Location when that does not start with
\* "http", and to the Location as it is when it does.
C35_RedirectTarget ==
    /\ req.hop = 0 => req.url = client.BaseURL \o <<"/">> \o path \o <<"/">>
    /\ (req.hop >= 1 /\ prev.location # <<>>) =>
          /\ prev.status = StatusTemporaryRedirect
          /\ prev.location[1] # "http" =>
                req.url = client.BaseURL \o prev.location
          /\ prev.location[1] = "http" => req.url = prev.location

\* C35 happens: the first redirect named a relative location, the second
\* an absolute one, and the third request has been sent there.
C35_Witness ==
    /\ req.hop = 2
    /\ nreq = 3
    /\ prevURL = client.BaseURL \o <<"/foo">>
    /\ prev.location = <<"http", "://other", "/bar">>
    /\ req.url = prev.location

\* C36: every request of a Post call, the first and each redirected one,
\* carries the Basic Authorization header made of the key and the secret
\* of the client and the Accept header; and no step of Post changes the
\* client: its key, secret, base URL and HTTP client stay as they were.
C36_AuthOnEveryHop ==
    /\ [](req # NoRequest =>
             /\ req.auth = <<"Basic", client.key, ":", client.secret>>
             /\ req.accept = AcceptHeader
             /\ req.hop \in 0..tries)
    /\ [][client' = client]_vars

\* C36 happens: on a client with the second key, the eleventh request of a
\* call, the tenth redirected one, has been sent with the credentials.
C36_Witness ==
    /\ client.key = "key2"
    /\ req.hop = tries
    /\ nreq = tries + 1
    /\ req.auth = <<"Basic", "key2", ":", "secret">>

\* C37: whatever the server answers, a Post call sends at most 11
\* requests, the first and 10 redirected ones; and when every round trip
\* returns, a call that was made returns.
C37_PostTerminates ==
    /\ [](nreq <= tries + 1)
    /\ [](try <= tries)
    /\ (hpc \notin {"idle", "returned"}) ~> (hpc = "returned")

\* C37 happens: the second call on the client has returned after its
\* eleventh request was answered by one more redirect.
C37_Witness ==
    /\ calls = 2
    /\ hpc = "returned"
    /\ nreq = tries + 1
    /\ resp.status = StatusTemporaryRedirect
    /\ resp.location = <<"/foo">>

====
